---- MODULE Spec2Model ----
(***************************************************************************)
(* Model of the "AI Influencer Factory" front-end: the App component       *)
(* (src/unnamed/part_000) and the remote image service client              *)
(* (src/services/geminiService.ts).                                        *)
(*                                                                         *)
(* Texts (prompts, messages) are TLA+ strings.  Image bytes and data URIs  *)
(* are sequences of one-character strings, so that building a data URI and *)
(* splitting it at ',' are computed character by character.  A nullable    *)
(* value is Null (the empty tuple) or <<v>>.                               *)
(*                                                                         *)
(* State updates made by one handler run are committed together and are    *)
(* followed by one render of App (automatic batching of the React root).   *)
(***************************************************************************)
EXTENDS Naturals, Sequences, FiniteSets, TLC

VARIABLES
    mode,            \* AppMode: "generate" | "edit"
    isLoading,       \* boolean
    error,           \* Null or <<message>>
    imageUrl,        \* Null or <<data URI>>
    persona,         \* the six generation controls
    editModeTab,     \* "inpaint" | "newScene" | "addText"
    inpaintPrompt,
    newScenePrompt,
    textContent,
    textLanguage,
    brushSize,
    isDrawing,
    raster,          \* segments stroked on the canvas element now mounted
    sized,           \* the mounted canvas has the rendered size of the image
    ctx,             \* contextRef.current: "none" | "mounted" | "detached"
    hasPoint,        \* the current path of contextRef.current has a point
    effCanvas,       \* canvas captured by the live effect closure
    loadPending,     \* image.onload = setCanvasDimensions has not fired yet
    inflight,        \* remote calls issued and not yet settled
    issued,          \* number of remote calls issued so far
    justSettled,     \* history: <<op, ok>> of the call whose settling was the
                     \* last step, Null after any other step
    clearedFrom      \* history: <<raster>> as it was when the last step called
                     \* clearCanvas, Null after any other step

sessionVars == <<mode, isLoading, error, imageUrl>>
formVars == <<persona, editModeTab, inpaintPrompt, newScenePrompt, textContent,
              textLanguage, brushSize>>
canvasVars == <<isDrawing, raster, sized, ctx, hasPoint, effCanvas, loadPending>>
callVars == <<inflight, issued>>
progVars == <<sessionVars, formVars, canvasVars, callVars>>
vars == <<progVars, justSettled, clearedFrom>>

\* The step is neither the settling of a call nor a clearing of the mask.
NoHistory == justSettled' = <<>> /\ clearedFrom' = <<>>

(***************************************************************************)
(* Bounds of the model.                                                    *)
(***************************************************************************)
MaxCalls == 4
MaxCanvasCalls == 3
MaxDirectCalls == 3
MaxFairCalls == 3
MaxHandlerCalls == 3
MaxPromptCalls == 1
MaxStrokes == 1
MaxBytesLen == 2

Null == <<>>
Some(v) == <<v>>

Ops == {"generate", "inpaint", "newScene", "addText"}
Tabs == {"inpaint", "newScene", "addText"}


(***************************************************************************)
(* Remote image service client (geminiService.ts).                         *)
(***************************************************************************)
\* 'data:image/jpeg;base64,'
DataUriPrefix ==
    <<"d", "a", "t", "a", ":", "i", "m", "a", "g", "e", "/", "j", "p", "e", "g",
      ";", "b", "a", "s", "e", "6", "4", ",">>

DataUri(bytes) == DataUriPrefix \o bytes

\* Image bytes the provider may return.
Bytes == {<<"A">>, <<"B">>}

\* What one call of ai.models.generateImages can do: throw an Error, throw a
\* value that is no Error, or resolve to a response whose generatedImages is
\* absent (hasList = FALSE) or a list of images.
NetworkMessage == "Network error"

Outcomes ==
    {[kind |-> "throwError", message |-> NetworkMessage, hasList |-> FALSE, images |-> <<>>],
     [kind |-> "throwOther", message |-> "", hasList |-> FALSE, images |-> <<>>],
     [kind |-> "response", message |-> "", hasList |-> FALSE, images |-> <<>>],
     [kind |-> "response", message |-> "", hasList |-> TRUE, images |-> <<>>]}
    \cup {[kind |-> "response", message |-> "", hasList |-> TRUE, images |-> <<b>>] :
            b \in Bytes}
    \cup {[kind |-> "response", message |-> "", hasList |-> TRUE, images |-> p] :
            p \in {q \in Bytes \X Bytes : q[1] # q[2]}}

NoImagesMessage(op) ==
    CASE op = "generate" -> "Image generation failed, no images were returned."
      [] op = "inpaint" -> "Inpainting failed, no images were returned."
      [] op = "newScene" -> "Consistent character generation failed, no images were returned."
      [] op = "addText" -> "Adding text failed, no images were returned."

FailPrefix(op) ==
    CASE op = "generate" -> "Failed to generate influencer image: "
      [] op = "inpaint" -> "Failed to inpaint image: "
      [] op = "newScene" -> "Failed to generate consistent character: "
      [] op = "addText" -> "Failed to add text to image: "

UnknownMessage(op) ==
    CASE op = "generate" -> "An unknown error occurred during image generation."
      [] op = "inpaint" -> "An unknown error occurred during image inpainting."
      [] op = "newScene" -> "An unknown error occurred during consistent character generation."
      [] op = "addText" -> "An unknown error occurred while adding text to the image."

\* A thrown value: an Error carrying a message, or something else.
Thrown(isErr, msg) == [returned |-> FALSE, isError |-> isErr, message |-> msg, url |-> <<>>]
Returned(u) == [returned |-> TRUE, isError |-> FALSE, message |-> "", url |-> u]

\* The check for a response without images.
NoImages(outcome) == ~outcome.hasList \/ Len(outcome.images) = 0

\* A try block that takes the bytes of the first image when there is one and
\* empty bytes otherwise, without the check for an empty list.
TryBodyWithoutCheck(op, outcome) ==
    CASE outcome.kind = "throwError" -> Thrown(TRUE, outcome.message)
      [] outcome.kind = "throwOther" -> Thrown(FALSE, "")
      [] OTHER -> Returned(DataUri(IF outcome.hasList /\ Len(outcome.images) > 0
                                   THEN outcome.images[1] ELSE <<>>))

\* A try block that takes the bytes of the last image of the response.
TryBodyLastImage(op, outcome) ==
    CASE outcome.kind = "throwError" -> Thrown(TRUE, outcome.message)
      [] outcome.kind = "throwOther" -> Thrown(FALSE, "")
      [] OTHER ->
           IF NoImages(outcome)
             THEN Thrown(TRUE, NoImagesMessage(op))
             ELSE Returned(DataUri(outcome.images[Len(outcome.images)]))

\* The body of the try block after the provider call has settled.
TryBody(op, outcome) ==
    CASE outcome.kind = "throwError" -> Thrown(TRUE, outcome.message)
      [] outcome.kind = "throwOther" -> Thrown(FALSE, "")
      [] OTHER ->
           IF NoImages(outcome)
             THEN Thrown(TRUE, NoImagesMessage(op))
             ELSE Returned(DataUri(outcome.images[1]))

\* The whole service function: the try block and its catch clause.
ServiceCall(op, outcome) ==
    LET r == TryBody(op, outcome) IN
    IF r.returned THEN r
    ELSE IF r.isError THEN Thrown(TRUE, FailPrefix(op) \o r.message)
    ELSE Thrown(TRUE, UnknownMessage(op))

(***************************************************************************)
(* getBase64FromDataUrl: dataUrl.split(',')[1].                            *)
(***************************************************************************)
Undefined == <<"undefined">>

RECURSIVE SplitComma(_)
SplitComma(s) ==
    IF \A i \in 1..Len(s) : s[i] # ","
      THEN <<s>>
      ELSE LET k == CHOOSE i \in 1..Len(s) :
                      s[i] = "," /\ \A j \in 1..(i - 1) : s[j] # ","
           IN <<SubSeq(s, 1, k - 1)>> \o SplitComma(SubSeq(s, k + 1, Len(s)))

getBase64FirstPart(dataUrl) == SplitComma(dataUrl)[1]

getBase64FromDataUrl(dataUrl) ==
    LET parts == SplitComma(dataUrl) IN
    IF Len(parts) >= 2 THEN parts[2] ELSE Undefined


(***************************************************************************)
(* App component: state, rendering and the mask canvas (part_000).         *)
(***************************************************************************)
DefaultPrompt ==
    "A stylish female influencer with vibrant pink hair, standing in a futuristic neon-lit city square at night."

InitialPersona ==
    [prompt |-> DefaultPrompt, aspectRatio |-> "1:1", style |-> "Photorealistic",
     age |-> "25", dominantColor |-> "Neon Pink", ethnicity |-> "Caucasian"]

\* Values the user enters in the generation controls.
PersonaValues ==
    [prompt |-> {DefaultPrompt, "D"}, aspectRatio |-> {"1:1", "16:9"},
     style |-> {"Photorealistic", "Anime"}, age |-> {"25", ""},
     dominantColor |-> {"Neon Pink", ""}, ethnicity |-> {"Caucasian", "Asian"}]

PersonaFields == DOMAIN InitialPersona

\* Values the user enters in the editing controls.
Texts == {"", "x"}
Languages == {"English", "Japanese"}
BrushSizes == {40, 10}

\* JavaScript truthiness of the nullable data URI.
Truthy(v) == v # Null /\ v[1] # <<>>

\* ImageDisplay mounts the canvas over the image in edit mode on the inpaint tab.
CanvasShownIn(m, url, tab) == Truthy(url) /\ m = "edit" /\ tab = "inpaint"
CanvasShown == CanvasShownIn(mode, imageUrl, editModeTab)

\* A React state variable got a new value, so App renders again.
StateChanged ==
    \/ mode' # mode \/ isLoading' # isLoading \/ error' # error \/ imageUrl' # imageUrl
    \/ persona' # persona \/ editModeTab' # editModeTab
    \/ inpaintPrompt' # inpaintPrompt \/ newScenePrompt' # newScenePrompt
    \/ textContent' # textContent \/ textLanguage' # textLanguage
    \/ brushSize' # brushSize \/ isDrawing' # isDrawing

\* The dependencies of the canvas effect.
DepsChanged == mode' # mode \/ brushSize' # brushSize \/ imageUrl' # imageUrl

Detach(c) == IF c = "mounted" THEN "detached" ELSE c

\* The canvas effect body, run after a render in which a dependency changed
\* (the previous run's cleanup has removed its listener and onload handler).
EffectBody ==
    IF mode' = "edit" /\ CanvasShownIn(mode', imageUrl', editModeTab') /\ Truthy(imageUrl')
      THEN effCanvas' = "mounted" /\ loadPending' = TRUE
      ELSE effCanvas' = "none" /\ loadPending' = FALSE

\* A render that keeps the canvas element while the canvas stays shown, as if
\* ImageDisplay were not a new component in every render of App.
RenderKeepsCanvas(rasterNow, pointNow) ==
    IF ~StateChanged
      THEN /\ raster' = rasterNow
           /\ hasPoint' = pointNow
           /\ UNCHANGED <<sized, ctx, effCanvas, loadPending>>
      ELSE LET kept == CanvasShown /\ CanvasShownIn(mode', imageUrl', editModeTab') IN
           /\ raster' = IF kept THEN rasterNow ELSE 0
           /\ sized' = (kept /\ sized)
           /\ ctx' = IF kept THEN ctx ELSE Detach(ctx)
           /\ hasPoint' = pointNow
           /\ IF DepsChanged
                THEN EffectBody
                ELSE /\ effCanvas' = IF kept THEN effCanvas ELSE Detach(effCanvas)
                     /\ loadPending' = loadPending

\* One render of App after a handler ran.  ImageDisplay is a component defined
\* inside App, so every render of App unmounts the <img> and <canvas> of the
\* previous render and mounts new elements; the refs, and the context kept in
\* contextRef, outlive the render.  rasterNow and pointNow are the raster and
\* the path as the handler left them.
Render(rasterNow, pointNow) ==
    IF ~StateChanged
      THEN /\ raster' = rasterNow
           /\ hasPoint' = pointNow
           /\ UNCHANGED <<sized, ctx, effCanvas, loadPending>>
      ELSE /\ raster' = 0
           /\ sized' = FALSE
           /\ ctx' = Detach(ctx)
           /\ hasPoint' = pointNow
           /\ IF DepsChanged
                THEN EffectBody
                ELSE effCanvas' = Detach(effCanvas) /\ loadPending' = loadPending

\* setCanvasDimensions of the effect closure whose canvas is `target`.
SetCanvasDimensions(target) ==
    IF ~Truthy(imageUrl)
      THEN UNCHANGED <<raster, sized, ctx, hasPoint>>
      ELSE IF target = "mounted"
        THEN raster' = 0 /\ sized' = TRUE /\ ctx' = "mounted" /\ hasPoint' = FALSE
        ELSE /\ ctx' = "detached" /\ hasPoint' = FALSE
             /\ UNCHANGED <<raster, sized>>

Init ==
    /\ mode = "generate"
    /\ isLoading = FALSE
    /\ error = Null
    /\ imageUrl = Null
    /\ persona = InitialPersona
    /\ editModeTab = "inpaint"
    /\ inpaintPrompt = ""
    /\ newScenePrompt = ""
    /\ textContent = ""
    /\ textLanguage = "English"
    /\ brushSize = 40
    /\ isDrawing = FALSE
    /\ raster = 0
    /\ sized = FALSE
    /\ ctx = "none"
    /\ hasPoint = FALSE
    /\ effCanvas = "none"
    /\ loadPending = FALSE
    /\ inflight = {}
    /\ issued = 0
    /\ justSettled = Null
    /\ clearedFrom = Null


(***************************************************************************)
(* API call handlers: the part of each handler that runs at the click, up  *)
(* to the await of the service call.                                       *)
(***************************************************************************)
\* Calls are told apart by their number in the order of issue.
\* The prompt sent to the provider by generateInfluencerImage, built without
\* the test of age (the age clause is always appended).
FullPromptAlwaysAge(options) ==
    "Create a " \o options.style
      \o ", ultra-realistic, full-body portrait of a " \o options.ethnicity
      \o " AI influencer."
      \o " The style should be high-resolution, resembling a professional photograph."
      \o " Key details: " \o options.prompt \o "."
      \o " The influencer should appear to be around " \o options.age \o " years old."
      \o (IF options.dominantColor # ""
            THEN " The image's color palette should be dominated by shades of "
                   \o options.dominantColor \o "."
            ELSE "")
      \o " Focus on realistic skin textures, intricate details, natural lighting, and a compelling pose."

\* fullPrompt of generateInfluencerImage.
FullPrompt(options) ==
    "Create a " \o options.style
      \o ", ultra-realistic, full-body portrait of a " \o options.ethnicity
      \o " AI influencer."
      \o " The style should be high-resolution, resembling a professional photograph."
      \o " Key details: " \o options.prompt \o "."
      \o (IF options.age # ""
            THEN " The influencer should appear to be around " \o options.age \o " years old."
            ELSE "")
      \o (IF options.dominantColor # ""
            THEN " The image's color palette should be dominated by shades of "
                   \o options.dominantColor \o "."
            ELSE "")
      \o " Focus on realistic skin textures, intricate details, natural lighting, and a compelling pose."

\* fullPrompt of generateConsistentCharacter.
ScenePrompt(prompt) ==
    "Using the provided image as a reference for the character's face and appearance, create a new scene. The character must remain consistent. New scene description: \""
      \o prompt \o "\""

\* fullPrompt of addTextToImage.
TextPrompt(prompt, language) ==
    "Seamlessly and realistically integrate the following text onto the image, matching the existing art style, lighting, perspective, and textures. The text should appear as a natural part of the scene, not just an overlay.\nText to add: \""
      \o prompt \o "\"\nThe text is in " \o language \o " language."

\* The request a handler's service call sends to the provider.
Call(op, prompt, image, mask) ==
    [id |-> issued + 1, op |-> op, prompt |-> prompt, image |-> image, mask |-> mask]

\* A submission that sends its request twice.
IssueTwice(call) ==
    /\ isLoading' = TRUE
    /\ error' = Null
    /\ inflight' = inflight \cup {call, [call EXCEPT !.id = call.id + 1]}
    /\ issued' = issued + 2
    /\ NoHistory
    /\ UNCHANGED <<mode, imageUrl, formVars, isDrawing>>
    /\ Render(raster, hasPoint)


\* setIsLoading(true); setError(null); then the service call is issued.
Issue(call) ==
    /\ isLoading' = TRUE
    /\ error' = Null
    /\ inflight' = inflight \cup {call}
    /\ issued' = issued + 1
    /\ NoHistory
    /\ UNCHANGED <<mode, imageUrl, formVars, isDrawing>>
    /\ Render(raster, hasPoint)

\* A handler that returns at its guard.
Return(op) == UNCHANGED progVars /\ NoHistory

handleGenerate == Issue(Call("generate", FullPrompt(persona), <<>>, 0))

handleApplyInpaint ==
    IF ~Truthy(imageUrl) \/ ~CanvasShown
      THEN Return("inpaint")
      ELSE Issue(Call("inpaint", inpaintPrompt, getBase64FromDataUrl(imageUrl[1]), raster))

handleGenerateNewScene ==
    IF ~Truthy(imageUrl)
      THEN Return("newScene")
      ELSE Issue(Call("newScene", ScenePrompt(newScenePrompt), getBase64FromDataUrl(imageUrl[1]), 0))

handleApplyTextUnguarded ==
    Issue(Call("addText", TextPrompt(textContent, textLanguage),
               IF Truthy(imageUrl) THEN getBase64FromDataUrl(imageUrl[1]) ELSE Undefined, 0))

handleApplyText ==
    IF ~Truthy(imageUrl) \/ textContent = ""
      THEN Return("addText")
      ELSE Issue(Call("addText", TextPrompt(textContent, textLanguage), getBase64FromDataUrl(imageUrl[1]), 0))

(***************************************************************************)
(* The rest of each handler, run when the service call settles.            *)
(***************************************************************************)
\* A clearCanvas that clears nothing.
ClearedRasterKept == raster

\* clearCanvas: clearRect through contextRef.current, which clears the
\* canvas that context belongs to.
ClearedRaster == IF CanvasShown /\ ctx = "mounted" THEN 0 ELSE raster

\* A success path that clears all three text inputs, whatever the operation.
OnSuccessClearsAllInputs(op, url) ==
    /\ imageUrl' = Some(url)
    /\ mode' = IF op = "generate" THEN "edit" ELSE mode
    /\ inpaintPrompt' = ""
    /\ newScenePrompt' = ""
    /\ textContent' = ""
    /\ error' = error

\* A success path that enters edit mode after every operation.
OnSuccessAlwaysEdit(op, url) ==
    /\ imageUrl' = Some(url)
    /\ mode' = "edit"
    /\ inpaintPrompt' = IF op = "inpaint" THEN "" ELSE inpaintPrompt
    /\ newScenePrompt' = IF op = "newScene" THEN "" ELSE newScenePrompt
    /\ textContent' = IF op = "addText" THEN "" ELSE textContent
    /\ error' = error

\* The statements after the await on the success path.
OnSuccess(op, url) ==
    /\ imageUrl' = Some(url)
    /\ mode' = IF op = "generate" THEN "edit" ELSE mode
    /\ inpaintPrompt' = IF op = "inpaint" THEN "" ELSE inpaintPrompt
    /\ newScenePrompt' = IF op = "newScene" THEN "" ELSE newScenePrompt
    /\ textContent' = IF op = "addText" THEN "" ELSE textContent
    /\ error' = error

\* The catch clause of the handler.
CatchMessage(r) == IF r.isError THEN r.message ELSE "An unexpected error occurred."

\* A catch clause that also drops the current image.
OnFailureDropsImage(op, r) ==
    /\ error' = Some(CatchMessage(r))
    /\ imageUrl' = Null
    /\ UNCHANGED <<mode, inpaintPrompt, newScenePrompt, textContent>>

OnFailure(op, r) ==
    /\ error' = Some(CatchMessage(r))
    /\ UNCHANGED <<imageUrl, mode, inpaintPrompt, newScenePrompt, textContent>>

\* A handler without the finally clause.
FinallyMissing == isLoading' = isLoading

\* The finally clause of the handler.
Finally == isLoading' = FALSE

Complete(c, outcome) ==
    LET r == ServiceCall(c.op, outcome) IN
    /\ inflight' = inflight \ {c}
    /\ issued' = issued
    /\ justSettled' = Some([op |-> c.op, ok |-> r.returned])
    /\ clearedFrom' = IF r.returned /\ c.op = "inpaint" THEN Some(raster) ELSE Null
    /\ IF r.returned THEN OnSuccess(c.op, r.url) ELSE OnFailure(c.op, r)
    /\ Finally
    /\ UNCHANGED <<persona, editModeTab, textLanguage, brushSize, isDrawing>>
    /\ Render(IF r.returned /\ c.op = "inpaint" THEN ClearedRaster ELSE raster, hasPoint)

(***************************************************************************)
(* UI action handlers.                                                     *)
(***************************************************************************)
\* The link is created, clicked and removed; no state is touched.
handleDownload == UNCHANGED progVars /\ NoHistory

\* A Start Over that leaves the loading flag alone.
StartOverKeepsLoading ==
    /\ mode' = "generate"
    /\ imageUrl' = Null
    /\ error' = Null
    /\ isLoading' = isLoading
    /\ inpaintPrompt' = ""
    /\ newScenePrompt' = ""
    /\ textContent' = ""
    /\ textLanguage' = "English"
    /\ editModeTab' = "inpaint"

\* A Start Over that leaves the scene prompt alone.
StartOverKeepsScenePrompt ==
    /\ mode' = "generate"
    /\ imageUrl' = Null
    /\ error' = Null
    /\ isLoading' = FALSE
    /\ inpaintPrompt' = ""
    /\ newScenePrompt' = newScenePrompt
    /\ textContent' = ""
    /\ textLanguage' = "English"
    /\ editModeTab' = "inpaint"

\* The state updates of handleStartOver.
StartOverUpdates ==
    /\ mode' = "generate"
    /\ imageUrl' = Null
    /\ error' = Null
    /\ isLoading' = FALSE
    /\ inpaintPrompt' = ""
    /\ newScenePrompt' = ""
    /\ textContent' = ""
    /\ textLanguage' = "English"
    /\ editModeTab' = "inpaint"

\* A Start Over that drops the calls in flight.
handleStartOverCancels ==
    /\ StartOverUpdates
    /\ inflight' = {}
    /\ UNCHANGED <<persona, brushSize, isDrawing, issued>>
    /\ NoHistory
    /\ Render(raster, hasPoint)

handleStartOver ==
    /\ StartOverUpdates
    /\ UNCHANGED <<persona, brushSize, isDrawing, callVars>>
    /\ NoHistory
    /\ Render(raster, hasPoint)


(***************************************************************************)
(* Drawing handlers and the canvas effect's callbacks.                     *)
(***************************************************************************)
startDrawing ==
    IF ctx = "none"
      THEN Return("startDrawing")
      ELSE /\ isDrawing' = TRUE
           /\ UNCHANGED <<sessionVars, formVars, callVars>>
           /\ NoHistory
           /\ Render(raster, TRUE)

stopDrawing ==
    IF ctx = "none"
      THEN Return("stopDrawing")
      ELSE /\ isDrawing' = FALSE
           /\ UNCHANGED <<sessionVars, formVars, callVars>>
           /\ NoHistory
           /\ Render(raster, hasPoint)

\* A draw handler without the test of isDrawing.
drawWhileIdle ==
    IF ctx = "none"
      THEN Return("draw")
      ELSE /\ raster' = IF hasPoint /\ ctx = "mounted" THEN raster + 1 ELSE raster
           /\ hasPoint' = TRUE
           /\ UNCHANGED <<sessionVars, formVars, callVars, isDrawing, sized, ctx,
                          effCanvas, loadPending>>
           /\ NoHistory

\* lineTo and stroke: a segment is stroked when the path already has a point,
\* on the canvas that contextRef.current belongs to.
draw ==
    IF ~isDrawing \/ ctx = "none"
      THEN Return("draw")
      ELSE /\ raster' = IF hasPoint /\ ctx = "mounted" THEN raster + 1 ELSE raster
           /\ hasPoint' = TRUE
           /\ UNCHANGED <<sessionVars, formVars, callVars, isDrawing, sized, ctx,
                          effCanvas, loadPending>>
           /\ NoHistory

clearCanvas ==
    /\ raster' = ClearedRaster
    /\ UNCHANGED <<sessionVars, formVars, callVars, isDrawing, sized, ctx, hasPoint,
                   effCanvas, loadPending>>
    /\ justSettled' = Null
    /\ clearedFrom' = Some(raster)

\* image.onload of the effect closure fires.
ImageLoaded ==
    /\ loadPending
    /\ loadPending' = FALSE
    /\ SetCanvasDimensions(effCanvas)
    /\ UNCHANGED <<sessionVars, formVars, callVars, isDrawing, effCanvas>>
    /\ NoHistory

\* The window is resized: the rendered size of the image changes and the
\* resize listener of the effect closure, if one is registered, runs.
WindowResized ==
    /\ IF effCanvas = "mounted"
         THEN SetCanvasDimensions(effCanvas)
         ELSE /\ sized' = FALSE
              /\ raster' = raster
              /\ IF effCanvas = "detached" /\ Truthy(imageUrl)
                   THEN ctx' = "detached" /\ hasPoint' = FALSE
                   ELSE UNCHANGED <<ctx, hasPoint>>
    /\ UNCHANGED <<sessionVars, formVars, callVars, isDrawing, effCanvas, loadPending>>
    /\ NoHistory

(***************************************************************************)
(* Form inputs.                                                            *)
(***************************************************************************)
SetForm(act) ==
    /\ UNCHANGED <<sessionVars, callVars, isDrawing>>
    /\ NoHistory
    /\ Render(raster, hasPoint)

SetPersona(f, v) ==
    /\ persona' = [persona EXCEPT ![f] = v]
    /\ UNCHANGED <<editModeTab, inpaintPrompt, newScenePrompt, textContent,
                   textLanguage, brushSize>>
    /\ SetForm("setPersona")

setEditModeTab(t) ==
    /\ editModeTab' = t
    /\ UNCHANGED <<persona, inpaintPrompt, newScenePrompt, textContent, textLanguage,
                   brushSize>>
    /\ SetForm("setEditModeTab")

setInpaintPrompt(v) ==
    /\ inpaintPrompt' = v
    /\ UNCHANGED <<persona, editModeTab, newScenePrompt, textContent, textLanguage,
                   brushSize>>
    /\ SetForm("setInpaintPrompt")

setNewScenePrompt(v) ==
    /\ newScenePrompt' = v
    /\ UNCHANGED <<persona, editModeTab, inpaintPrompt, textContent, textLanguage,
                   brushSize>>
    /\ SetForm("setNewScenePrompt")

setTextContent(v) ==
    /\ textContent' = v
    /\ UNCHANGED <<persona, editModeTab, inpaintPrompt, newScenePrompt, textLanguage,
                   brushSize>>
    /\ SetForm("setTextContent")

setTextLanguage(v) ==
    /\ textLanguage' = v
    /\ UNCHANGED <<persona, editModeTab, inpaintPrompt, newScenePrompt, textContent,
                   brushSize>>
    /\ SetForm("setTextLanguage")

setBrushSize(v) ==
    /\ brushSize' = v
    /\ UNCHANGED <<persona, editModeTab, inpaintPrompt, newScenePrompt, textContent,
                   textLanguage>>
    /\ SetForm("setBrushSize")

(***************************************************************************)
(* What the rendered page lets the user do.                                *)
(***************************************************************************)
\* GenerationControls are rendered in generate mode.
EditPersona(fields) ==
    /\ mode = "generate"
    /\ \E f \in fields : \E v \in PersonaValues[f] : v # persona[f] /\ SetPersona(f, v)

ClickGenerate(limit) ==
    /\ mode = "generate" /\ ~isLoading
    /\ issued < limit
    /\ handleGenerate

\* EditingControls are rendered in edit mode; each tab shows its own controls.
SwitchTab ==
    /\ mode = "edit"
    /\ \E t \in Tabs : setEditModeTab(t)

EditInpaintPrompt ==
    /\ mode = "edit" /\ editModeTab = "inpaint"
    /\ \E v \in Texts : v # inpaintPrompt /\ setInpaintPrompt(v)

EditNewScenePrompt ==
    /\ mode = "edit" /\ editModeTab = "newScene"
    /\ \E v \in Texts : v # newScenePrompt /\ setNewScenePrompt(v)

EditTextContent ==
    /\ mode = "edit" /\ editModeTab = "addText"
    /\ \E v \in Texts : v # textContent /\ setTextContent(v)

EditTextLanguage ==
    /\ mode = "edit" /\ editModeTab = "addText"
    /\ \E v \in Languages : v # textLanguage /\ setTextLanguage(v)

MoveBrushSlider ==
    /\ mode = "edit" /\ editModeTab = "inpaint"
    /\ \E v \in BrushSizes : v # brushSize /\ setBrushSize(v)

ClickApplyInpaint(limit) ==
    /\ mode = "edit" /\ editModeTab = "inpaint"
    /\ ~isLoading /\ inpaintPrompt # ""
    /\ issued < limit
    /\ handleApplyInpaint

ClickNewScene(limit) ==
    /\ mode = "edit" /\ editModeTab = "newScene"
    /\ ~isLoading /\ newScenePrompt # ""
    /\ issued < limit
    /\ handleGenerateNewScene

ClickApplyText(limit) ==
    /\ mode = "edit" /\ editModeTab = "addText"
    /\ ~isLoading /\ textContent # ""
    /\ issued < limit
    /\ handleApplyText

ClickClearMask ==
    /\ mode = "edit" /\ editModeTab = "inpaint"
    /\ clearCanvas

ClickDownload == mode = "edit" /\ handleDownload

ClickStartOver == mode = "edit" /\ handleStartOver

\* The canvas receives mouse events while it is mounted and the loading
\* overlay (z-20, over the canvas at z-10) is not rendered.
CanvasReachable == CanvasShown /\ ~isLoading

MouseDown == CanvasReachable /\ startDrawing
MouseUpOrLeave == CanvasReachable /\ stopDrawing
MouseMove == CanvasReachable /\ raster < MaxStrokes /\ draw

CallSettles(outcomes) == \E c \in inflight : \E o \in outcomes : Complete(c, o)

\* The session: every control of the page and the settling of calls; the
\* pointer is kept off the canvas.
SessionFields == {"age"}

SessionNext(limit) ==
    \/ ClickGenerate(limit)
    \/ ClickApplyInpaint(limit)
    \/ ClickNewScene(limit)
    \/ ClickApplyText(limit)
    \/ EditPersona(SessionFields)
    \/ SwitchTab
    \/ EditInpaintPrompt
    \/ EditNewScenePrompt
    \/ EditTextContent
    \/ EditTextLanguage
    \/ ClickDownload
    \/ ClickStartOver
    \/ CallSettles(Outcomes)

Next == SessionNext(MaxCalls)

Spec == Init /\ [][Next]_vars

\* The session together with the mask canvas: the pointer events on the
\* canvas, the loading of the image and the resizing of the window.  The
\* language select is left at its default here.
CanvasFields == {"prompt"}

CanvasOutcomes ==
    {o \in Outcomes : o.kind = "throwError" \/ (o.hasList /\ Len(o.images) = 1)}

CanvasNext ==
    \/ ClickGenerate(MaxCanvasCalls)
    \/ ClickApplyInpaint(MaxCanvasCalls)
    \/ ClickNewScene(MaxCanvasCalls)
    \/ ClickApplyText(MaxCanvasCalls)
    \/ EditPersona(CanvasFields)
    \/ SwitchTab
    \/ EditInpaintPrompt
    \/ EditNewScenePrompt
    \/ EditTextContent
    \/ MoveBrushSlider
    \/ ClickClearMask
    \/ ClickDownload
    \/ ClickStartOver
    \/ MouseDown
    \/ MouseUpOrLeave
    \/ MouseMove
    \/ ImageLoaded
    \/ WindowResized
    \/ CallSettles(CanvasOutcomes)

CanvasSpec == Init /\ [][CanvasNext]_vars


\* The handlers called whatever the page shows: Start Over is also called
\* where the page does not render its button.
DirectNext ==
    \/ SessionNext(MaxDirectCalls)
    \/ handleStartOver

DirectSpec == Init /\ [][DirectNext]_vars

\* The three edit handlers called whatever the page shows, next to the
\* controls that normally call them.
CallApplyInpaint == issued < MaxHandlerCalls /\ handleApplyInpaint

CallGenerateNewScene == issued < MaxHandlerCalls /\ handleGenerateNewScene

CallApplyText == issued < MaxHandlerCalls /\ handleApplyText

HandlerNext ==
    \/ ClickGenerate(MaxHandlerCalls)
    \/ ClickApplyInpaint(MaxHandlerCalls)
    \/ ClickNewScene(MaxHandlerCalls)
    \/ ClickApplyText(MaxHandlerCalls)
    \/ CallApplyInpaint
    \/ CallGenerateNewScene
    \/ CallApplyText
    \/ SwitchTab
    \/ EditInpaintPrompt
    \/ EditNewScenePrompt
    \/ EditTextContent
    \/ ClickStartOver
    \/ CallSettles(CanvasOutcomes)

HandlerSpec == Init /\ [][HandlerNext]_vars

\* A first generation: the six generation controls, the Generate button and
\* the settling of the call.
PromptNext ==
    \/ EditPersona(PersonaFields)
    \/ ClickGenerate(MaxPromptCalls)
    \/ CallSettles(CanvasOutcomes)

PromptSpec == Init /\ [][PromptNext]_vars

\* Every issued call settles at some time.
Settles(i) == \E c \in inflight : c.id = i /\ \E o \in Outcomes : Complete(c, o)

FairNext == SessionNext(MaxFairCalls)

FairSpec == Init /\ [][FairNext]_vars /\ \A i \in 1..MaxFairCalls : WF_vars(Settles(i))

(***************************************************************************)
(* Properties.                                                             *)
(***************************************************************************)
\* A response that carries at least one image.
HasImage(o) == o.kind = "response" /\ o.hasList /\ Len(o.images) > 0

\* C1: at most one remote operation is in flight in every reachable state.
C1_AtMostOneInFlight == Cardinality(inflight) <= 1

\* The values handleStartOver assigns are all in place already.
StartOverDone ==
    /\ mode = "generate" /\ imageUrl = Null /\ error = Null /\ ~isLoading
    /\ inpaintPrompt = "" /\ newScenePrompt = "" /\ textContent = ""
    /\ textLanguage = "English" /\ editModeTab = "inpaint"

\* C2: from every state, with or without an image, an error or a call in
\* flight, startOver leaves mode = generate, no image, no error and the
\* loading flag cleared; applied to a state it has produced it changes nothing.
C2_StartOverResets ==
    [][handleStartOver =>
         /\ mode' = "generate" /\ imageUrl' = Null /\ error' = Null /\ isLoading' = FALSE
         /\ (StartOverDone => UNCHANGED progVars)]_vars

\* Start Over has run while the first generate call was still in flight.
C2_StartOverDuringCall ==
    /\ issued = 1 /\ inflight # {} /\ ~isLoading
    /\ mode = "generate" /\ imageUrl = Null /\ error = Null

\* C3: a failing completion of any of the four operations leaves the image,
\* the mode and the tab as they were, stores a non-empty error message and
\* clears the loading flag.
C3_FailureKeepsImage ==
    [][\A c \in inflight \ inflight' : \A o \in Outcomes :
         (~ServiceCall(c.op, o).returned /\ Complete(c, o)) =>
             /\ imageUrl' = imageUrl /\ mode' = mode /\ editModeTab' = editModeTab
             /\ error' # Null /\ error'[1] # ""
             /\ isLoading' = FALSE]_vars

\* A new-scene call has just failed over an image that is still displayed.
C3_FailedOverImage ==
    /\ justSettled = Some([op |-> "newScene", ok |-> FALSE])
    /\ mode = "edit" /\ Truthy(imageUrl) /\ error # Null /\ ~isLoading

\* C4: a successful generate completion leaves mode = edit, tab = inpaint,
\* the returned image as the current image and the loading flag cleared.
C4_GenerateSuccess ==
    [][\A c \in inflight \ inflight' : \A o \in Outcomes :
         (c.op = "generate" /\ HasImage(o) /\ Complete(c, o)) =>
             /\ mode' = "edit" /\ editModeTab' = "inpaint"
             /\ imageUrl' = Some(DataUri(o.images[1]))
             /\ isLoading' = FALSE]_vars

\* C5: the loading flag is set in the step that issues a call, and whenever
\* it is set it is cleared again, given that every call settles.
C5_LoadingNeverSticks ==
    /\ [][inflight' \ inflight # {} => isLoading']_vars
    /\ (isLoading ~> ~isLoading)

\* A call was issued, has failed, and the flag is cleared with nothing in flight.
C5_FlagClearedAfterFailure ==
    /\ justSettled # Null /\ ~justSettled[1].ok
    /\ issued = 1 /\ inflight = {} /\ ~isLoading

C7_FailureKeepsInputs ==
    [][\A c \in inflight \ inflight' : \A o \in CanvasOutcomes :
         (~ServiceCall(c.op, o).returned /\ Complete(c, o)) =>
             /\ persona' = persona
             /\ inpaintPrompt' = inpaintPrompt /\ newScenePrompt' = newScenePrompt
             /\ textContent' = textContent /\ textLanguage' = textLanguage
             /\ raster' = raster]_vars

\* C8: Start Over in edit mode drops the image and the mask, empties the
\* three text inputs, returns the tab to inpaint and leaves the persona alone.
C8_StartOverFromEditing ==
    [][(mode = "edit" /\ handleStartOver) =>
         /\ mode' = "generate" /\ imageUrl' = Null /\ raster' = 0
         /\ inpaintPrompt' = "" /\ newScenePrompt' = "" /\ textContent' = ""
         /\ editModeTab' = "inpaint"
         /\ persona' = persona]_vars

\* Start Over has run after one generated image, over an edited persona.
C8_StartedOverPersonaKept ==
    /\ issued = 1 /\ inflight = {}
    /\ mode = "generate" /\ imageUrl = Null /\ error = Null /\ ~isLoading
    /\ persona # InitialPersona

\* C9: the mode is generate exactly when there is no image and edit exactly
\* when there is one, and the tab is one of the three tabs.
C9_ModeMatchesImage ==
    /\ (mode = "generate") <=> (imageUrl = Null)
    /\ (mode = "edit") <=> (imageUrl # Null)
    /\ editModeTab \in Tabs

\* C10: a response with no image list or an empty one makes the operation
\* fail; the failure is stored as the error and the image is not touched.
C10_NoImagesFails ==
    [][\A c \in inflight \ inflight' : \A o \in Outcomes :
         (o.kind = "response" /\ (~o.hasList \/ o.images = <<>>) /\ Complete(c, o)) =>
             /\ ~ServiceCall(c.op, o).returned
             /\ error' # Null /\ error'[1] # ""
             /\ imageUrl' = imageUrl]_vars

\* An add-text call got a response without images: its message is the error
\* and the image is still displayed.
C10_NoImagesErrorShown ==
    /\ error = Some(FailPrefix("addText") \o NoImagesMessage("addText"))
    /\ Truthy(imageUrl) /\ ~isLoading

\* C11: when the response carries one image or more, each of the four
\* operations returns "data:image/jpeg;base64," followed by the bytes of the
\* first image, and that data URI becomes the current image.
C11_FirstImageAsDataUri ==
    [][\A c \in inflight \ inflight' : \A o \in Outcomes :
         (HasImage(o) /\ Complete(c, o)) =>
             LET uri == <<"d","a","t","a",":","i","m","a","g","e","/","j","p","e","g",
                          ";","b","a","s","e","6","4",",">> \o Head(o.images)
             IN /\ ServiceCall(c.op, o) = Returned(uri)
                /\ imageUrl' = Some(uri)]_vars

\* A new-scene call has just returned and the image shown holds the bytes "B".
C11_SceneImageStored ==
    /\ justSettled = Some([op |-> "newScene", ok |-> TRUE])
    /\ imageUrl = Some(DataUriPrefix \o <<"B">>)

\* C12: a submission issues exactly one request, a completion issues none
\* (no retry), a call settles once, and a failing completion stores one error
\* and no image.
C12_OneRequestNoRetry ==
    [][/\ issued' \in {issued, issued + 1}
       /\ issued' = issued + 1 =>
            /\ inflight \subseteq inflight'
            /\ Cardinality(inflight' \ inflight) = 1
       /\ issued' = issued => inflight' \subseteq inflight
       /\ \A c \in inflight \ inflight' : \A o \in Outcomes :
            (~HasImage(o) /\ Complete(c, o)) =>
                /\ inflight \ inflight' = {c}
                /\ imageUrl' = imageUrl
                /\ error' # Null]_vars

\* A submission has failed once and nothing further was issued for it.
C12_FailedOnceNoRetry ==
    /\ justSettled = Some([op |-> "inpaint", ok |-> FALSE])
    /\ issued = 2 /\ inflight = {} /\ error # Null /\ Truthy(imageUrl)

\* The text t occurs in the text a.
Contains(a, t) == \E i \in 1..(Len(a) + 1 - Len(t)) : SubSeq(a, i, i + Len(t) - 1) = t

\* C13: the prompt sent by a generate submission contains the description,
\* the style and the ethnicity; it has the age clause exactly when the age is
\* not empty and the color clause exactly when the dominant color is not empty.
C13_PromptComposition ==
    [][\A c \in inflight' \ inflight :
         c.op = "generate" =>
             /\ Contains(c.prompt, persona.prompt)
             /\ Contains(c.prompt, persona.style)
             /\ Contains(c.prompt, persona.ethnicity)
             /\ Contains(c.prompt, "years old") <=> persona.age # ""
             /\ persona.age # "" =>
                  Contains(c.prompt, "around " \o persona.age \o " years old")
             /\ Contains(c.prompt, "color palette") <=> persona.dominantColor # ""
             /\ persona.dominantColor # "" =>
                  Contains(c.prompt, "shades of " \o persona.dominantColor)]_vars

\* A generate call is in flight for description "D", style Anime, ethnicity
\* Asian, no age and no color: its prompt has the three and neither clause.
C13_AnimeAsianSubmitted ==
    /\ persona = [prompt |-> "D", aspectRatio |-> "1:1", style |-> "Anime",
                  age |-> "", dominantColor |-> "", ethnicity |-> "Asian"]
    /\ \E c \in inflight :
         /\ c.op = "generate"
         /\ Contains(c.prompt, "Anime") /\ Contains(c.prompt, "Asian")
         /\ Contains(c.prompt, "Key details: D.")
         /\ ~Contains(c.prompt, "years old") /\ ~Contains(c.prompt, "palette")

\* C14: the mask surface goes Idle -> Drawing -> Idle.  Mouse down on an
\* initialised surface enters Drawing and nothing else does; the raster gains
\* a segment only by a mouse move while Drawing; mouse up or leave always ends
\* in Idle, where a mouse move leaves the raster alone.
C14_IdleDrawingIdle ==
    [][/\ (MouseDown /\ ctx = "mounted" /\ sized) => isDrawing'
       /\ (isDrawing' /\ ~isDrawing) => MouseDown
       /\ raster' > raster => (isDrawing /\ MouseMove)
       /\ (MouseMove /\ ~isDrawing) => raster' = raster
       /\ MouseUpOrLeave => ~isDrawing']_vars

\* A segment has been stroked on the visible mask while Drawing.
C14_SegmentWhileDrawing ==
    /\ CanvasShown /\ isDrawing /\ ctx = "mounted" /\ raster = 1

\* C15: clearCanvas leaves the mask raster empty, with any number of
\* segments on it and with the surface Idle or Drawing.
C15_ClearEmptiesRaster ==
    [][clearCanvas => raster' = 0]_vars

\* clearCanvas has run on a raster with one segment, the surface Drawing.
C15_ClearedWhileDrawing ==
    /\ clearedFrom = Some(1) /\ justSettled = Null
    /\ isDrawing /\ CanvasShown /\ raster = 0

\* C16: the mask does not outlive its image.  Every step that changes the
\* current image, and every successful inpaint, leaves the mask raster empty.
C16_MaskDiesWithImage ==
    [][/\ imageUrl' # imageUrl => raster' = 0
       /\ \A c \in inflight \ inflight' : \A o \in CanvasOutcomes :
            (c.op = "inpaint" /\ HasImage(o) /\ Complete(c, o)) => raster' = 0]_vars

\* An inpaint call has succeeded while the mask had a segment; the mask is empty.
C16_InpaintedOverStroke ==
    /\ justSettled = Some([op |-> "inpaint", ok |-> TRUE])
    /\ clearedFrom = Some(1) /\ raster = 0 /\ Truthy(imageUrl)

\* C17: whenever the mask canvas is shown over a loaded image, it has the
\* rendered size of the image and contextRef holds a context of that canvas.
C17_ShownCanvasInitialised ==
    (CanvasShown /\ ~loadPending) => (sized /\ ctx = "mounted")

\* C18: the session starts in generate mode with no image, not loading and
\* without error; the mode goes from generate to edit only when a generate
\* call completes with an image and from edit to generate only by Start Over;
\* edit completions, failed generates, tab switches and downloads keep it.
C18_ModeLifecycle ==
    /\ mode = "generate" /\ imageUrl = Null /\ ~isLoading /\ error = Null
    /\ [][/\ (mode = "generate" /\ mode' = "edit") =>
               \E c \in inflight \ inflight' : \E o \in Outcomes :
                   c.op = "generate" /\ HasImage(o) /\ Complete(c, o)
          /\ (mode = "edit" /\ mode' = "generate") => handleStartOver
          /\ \A c \in inflight \ inflight' : \A o \in Outcomes :
               ((c.op # "generate" \/ ~HasImage(o)) /\ Complete(c, o)) => mode' = mode
          /\ mode' # mode => ~(SwitchTab \/ ClickDownload)]_vars

\* The first generate call has just succeeded and the session is in edit mode.
C18_EnteredEditMode ==
    /\ justSettled = Some([op |-> "generate", ok |-> TRUE])
    /\ issued = 1 /\ mode = "edit" /\ Truthy(imageUrl)

\* C19: no user action cancels a call.  A call leaves the calls in flight
\* only by settling, and its completion is then applied: the returned image
\* or the error is stored and the loading flag is cleared.
C19_NoCancellation ==
    [][\A c \in inflight \ inflight' :
         /\ \E o \in Outcomes : Complete(c, o)
         /\ \A o \in Outcomes : Complete(c, o) =>
              /\ isLoading' = FALSE
              /\ IF HasImage(o)
                   THEN imageUrl' = Some(DataUri(o.images[1]))
                   ELSE error' # Null
         /\ ~(\/ ClickStartOver \/ SwitchTab \/ ClickDownload \/ EditInpaintPrompt
              \/ EditNewScenePrompt \/ EditTextContent \/ EditTextLanguage
              \/ EditPersona(SessionFields))]_vars

\* A new-scene call issued before Start Over has completed after it: its
\* image is stored although the session is back in generate mode.
C19_CompletedAfterStartOver ==
    /\ justSettled = Some([op |-> "newScene", ok |-> TRUE])
    /\ mode = "generate" /\ Truthy(imageUrl) /\ ~isLoading

\* C20: the loading flag is set exactly when a call is in flight.
C20_LoadingIffInFlight == isLoading <=> inflight # {}

\* C21: whenever an edit result replaces the current image, it was computed
\* from the image that is current at that moment; in particular no result of
\* a call issued before a Start Over is stored after it.
C21_ResultOfCurrentImage ==
    [][\A c \in inflight \ inflight' : \A o \in Outcomes :
         (c.op # "generate" /\ HasImage(o) /\ Complete(c, o)) =>
             /\ imageUrl # Null
             /\ imageUrl[1] = DataUriPrefix \o c.image]_vars

\* C22: moving the brush slider changes the brush size only: the segments on
\* the mask raster, the image and the rest of the session stay as they were.
C22_BrushSizeOnly ==
    [][MoveBrushSlider =>
         /\ raster' = raster
         /\ UNCHANGED <<sessionVars, persona, editModeTab, inpaintPrompt, newScenePrompt,
                        textContent, textLanguage, isDrawing, callVars>>]_vars

\* C23: an edit request is issued only over a present image, whose bytes it
\* carries; each edit handler returns at once, changing nothing and issuing
\* nothing, when there is no image (Add Text also when its text is empty,
\* inpainting also when no mask canvas is mounted); and a request issued by
\* one of the three submit buttons was issued with a non-empty text input.
C23_EditNeedsImageAndText ==
    [][/\ \A c \in inflight' \ inflight : c.op # "generate" =>
             /\ Truthy(imageUrl)
             /\ imageUrl[1] = DataUriPrefix \o c.image
       /\ (~Truthy(imageUrl) \/ ~CanvasShown) => (handleApplyInpaint => UNCHANGED progVars)
       /\ ~Truthy(imageUrl) => (handleGenerateNewScene => UNCHANGED progVars)
       /\ (~Truthy(imageUrl) \/ textContent = "") => (handleApplyText => UNCHANGED progVars)
       /\ inflight' # inflight =>
             /\ ClickApplyInpaint(MaxHandlerCalls) => inpaintPrompt # ""
             /\ ClickNewScene(MaxHandlerCalls) => newScenePrompt # ""
             /\ ClickApplyText(MaxHandlerCalls) => textContent # ""]_vars

C23_TextRequestOverImage ==
    \E c \in inflight :
        /\ c.op = "addText"
        /\ c.image \in Bytes
        /\ imageUrl = Some(DataUri(c.image))
        /\ textContent # ""

\* Comma-free byte strings of bounded length, the empty one included.
ByteAlphabet == {"A", "B", "="}

CommaFreeBytes == UNION {[1..n -> ByteAlphabet] : n \in 0..MaxBytesLen}

\* C24: a successful operation stores the wrapped bytes of its first image,
\* and the reference image of an edit request is exactly the bytes of the
\* stored image: getBase64FromDataUrl undoes the wrapping of DataUri for
\* every byte string without a comma.
C24_ImageBytesRoundTrip ==
    [][/\ \A c \in inflight \ inflight' : \A o \in Outcomes :
             (HasImage(o) /\ Complete(c, o)) => imageUrl' = Some(DataUri(o.images[1]))
       /\ \A c \in inflight' \ inflight : c.op # "generate" =>
             /\ imageUrl # Null
             /\ \E b \in Bytes : imageUrl[1] = DataUri(b) /\ c.image = b
             /\ c.image = getBase64FromDataUrl(imageUrl[1])
             /\ \A b \in CommaFreeBytes : getBase64FromDataUrl(DataUri(b)) = b]_vars

C24_SecondImageSentBack ==
    /\ justSettled = Null
    /\ imageUrl = Some(DataUri(<<"B">>))
    /\ \E c \in inflight : c.op = "inpaint" /\ c.image = <<"B">> /\ c.id > 2

====
